---- MODULE Spec2Model ----
(***************************************************************************)
(* Model of the REST statement-execution client of elt_llm:                *)
(* DatabricksCursor (src/app - Copy (3)/db.py).  One cursor is followed    *)
(* through a sequence of execute calls; every HTTP call the cursor makes   *)
(* blocks, so one action is one blocking call together with the code that  *)
(* runs until the next blocking call.  The warehouse is the environment:   *)
(* each response is drawn from the sets below.  Two further parts follow    *)
(* two cursors that execute concurrently, and the HTTP endpoints of         *)
(* src/app/main.py that run a cursor in a worker thread under a timeout.    *)
(* Further parts: update_column_comments and the column services of        *)
(* src/app - Copy (2)/enrichment_service.py, and the session store of      *)
(* src/app/auth_service.py behind the authenticated app.                   *)
(***************************************************************************)
EXTENDS Integers, Sequences, FiniteSets, TLC

VARIABLES
    pc,            \* where the cursor is: "idle", "poll" (line 66), "chunks" (line 90)
    calls,         \* number of execute calls started on this cursor
    statement_id,  \* local statement_id (line 55)
    status_code,   \* response.status_code of the latest POST / status GET
    result,        \* local result: the parsed body of the latest POST / status GET
    poll_count,    \* local poll_count (line 59)
    chunk_pos,     \* position of the for loop of line 89 in the manifest's chunks
    description,   \* self.description
    results,       \* self._results
    raised,        \* the exception the latest execute raised, NoExc if none
    fetched,       \* the value of the latest fetchall since the latest execute
    log,           \* history: requests and sleeps of the current execute, in order
    served,        \* history: the chunk responses of the current execute, in order
    pre_results,   \* history: self._results when the current execute was entered
    post_response, \* history: status code and text of the submit response
    reports,       \* history: the non-pending statuses the warehouse reported, in order
    all_pending,   \* history: every status reported so far was PENDING or RUNNING
    well_formed,   \* history: every row served so far was as long as its statement's schema
    all_returned,  \* history: every earlier execute on the cursor returned normally
    cur,           \* two cursors: per cursor, its attributes and the locals of its execute
    store,         \* two cursors: the lists that hold self._results, by owner
    warehouse,     \* two cursors: the statements the warehouse holds, by statement id
    endpoint,      \* the endpoint serving the HTTP request, "none" before the request
    worker,        \* the thread of asyncio.to_thread: "none", "running", "returned", "raised"
    response,      \* the HTTP response sent to the client, NoReply before it is sent
    cut_at,        \* history: Len(log) when the outer timeout cut a running worker
                   \* off, -1 while it has not
    upd,           \* update_column_comments: its mapping, where it is, cursor closed
    enrich,        \* the DESCRIBE rows of a table and what the column services made of them
    sessions,      \* auth_service.sessions: session id -> session
    now,           \* datetime.now(), in ticks
    minted,        \* session ids create_session has made so far
    thr,           \* the worker threads that run get_current_user, one request at a time
    loop,          \* the event loop, which runs login and logout one at a time
    deleted,       \* history: the ids for which delete_session has returned
    login          \* history: the latest login

cursor == <<description, results>>
locals == <<statement_id, status_code, result, poll_count, chunk_pos>>
history == <<log, served, pre_results, post_response, reports, all_pending,
             well_formed, all_returned>>
two == <<cur, store, warehouse>>
api == <<endpoint, worker, response, cut_at>>
cursorVars == <<pc, calls, raised, fetched, cursor, locals, history>>
auth == <<sessions, now, minted, thr, loop, deleted, login>>
rest == <<upd, enrich, auth>>
vars == <<cursorVars, two, api, rest>>

----------------------------------------------------------------------------
(* Bounds of the model *)

MaxCalls == 2      \* execute calls on the cursor
MaxChunks == 2     \* chunks a manifest lists
MaxPending == 2    \* Spec only: statuses the warehouse reports before a terminal one
MaxFetch == 2      \* fetchall calls after one execute
MaxRows == 2       \* rows DESCRIBE TABLE returns
MaxLogins == 1     \* sessions created
MaxTime == 2       \* ticks of the clock
SessionTicks == 1  \* ticks a session lives (SESSION_TIMEOUT_MINUTES, scaled)

(* Program constant: max_polls, db.py line 58 *)
max_polls == 60

(* Program constant: the seconds of time.sleep in the poll loop, db.py line 66 *)
poll_sleep == 2

----------------------------------------------------------------------------
(* The environment: what the warehouse can answer *)

Codes == {200, 201, 500}                 \* HTTP status codes: 200, another 2xx, a non-2xx
Is2xx(code) == code >= 200 /\ code < 300
Texts == {"body1", "body2"}              \* response.text of a rejected submit
Errors == {"err1", "err2"}               \* status.error of a FAILED statement
PendingStates == {"PENDING", "RUNNING"}
OtherStates == {"CANCELED", "NOSTATUS"}  \* NOSTATUS: the body has no status key
ColNames == {"c1", "c2"}
Schemas == {<<>>, <<"c1">>, <<"c1", "c2">>, <<"c1", "c1">>}
Rows == {<<"a">>, <<"b", "a">>}
DataArrays == {<<>>, <<<<"a">>>>, <<<<"b", "a">>>>, <<<<"a">>, <<"b", "a">>>>}
ChunkCodes == {200, 500}

\* the body of a chunk response: data_array may be absent (an error body)
ChunkBody(has, data) == [has_data_array |-> has, data_array |-> data]
ChunkResponses ==
    {[status_code |-> 200, body |-> ChunkBody(TRUE, d)] : d \in DataArrays}
    \cup {[status_code |-> 500, body |-> ChunkBody(FALSE, <<>>)]}

ChunkIndexes == 0 .. (MaxChunks - 1)
\* manifest.chunks: chunk references in the order the manifest lists them
ChunkLists ==
    {c \in UNION {[1 .. n -> ChunkIndexes] : n \in 0 .. MaxChunks} :
        \A i, j \in 1 .. Len(c) : i # j => c[i] # c[j]}

Body(st, err, ch, sch) == [state |-> st, error |-> err, chunks |-> ch, schema |-> sch]
NoBody == Body("NOSTATUS", "None", <<>>, <<>>)

UnfinishedBodies ==
    {Body(s, "None", <<>>, <<>>) : s \in PendingStates \cup OtherStates}
    \cup {Body("FAILED", e, <<>>, <<>>) : e \in Errors}

\* every body a POST or a status GET can return
Bodies ==
    UnfinishedBodies
    \cup {Body("SUCCEEDED", "None", c, s) : c \in ChunkLists, s \in Schemas}

\* the same with two manifests only, for the specification that follows the poll loop
\* to its cap
PollBodies ==
    UnfinishedBodies
    \cup {Body("SUCCEEDED", "None", c, <<"c1">>) : c \in {<<>>, <<0>>}}

\* what the warehouse may answer once n statuses were reported: at most cap pending ones
Answers(bodies, n, cap) == {b \in bodies : b.state \in PendingStates => n < cap}

----------------------------------------------------------------------------
(* Exceptions *)

NoExc == [msg |-> "", detail |-> ""]
Exc(m, d) == [msg |-> m, detail |-> d]
QueryFailedExc(d) == Exc("Query failed", d)
TimeoutExc == Exc("Query exceeded maximum execution time", "")
RequestExc == Exc("RequestException", "")

None == <<"<None>">>     \* Python None as the value of self.description

----------------------------------------------------------------------------
(* History entries *)

PostEntry == [op |-> "POST", id |-> 0, chunk_index |-> -1]
SleepEntry == [op |-> "SLEEP", id |-> 0, chunk_index |-> -1]
StatusGetEntry(id) == [op |-> "GET", id |-> id, chunk_index |-> -1]
ChunkGetEntry(id, ci) == [op |-> "CHUNK", id |-> id, chunk_index |-> ci]

NoResponse == [status_code |-> 0, text |-> ""]
NoReply == [status_code |-> 0, detail |-> ""]
Report(n, body) == [at |-> n, state |-> body.state, error |-> body.error]

NumOp(lg, op) == Cardinality({i \in 1 .. Len(lg) : lg[i].op = op})

\* the history after a POST or a status GET was answered with body
Reported(body, n) ==
    /\ reports' = IF body.state \in PendingStates THEN reports
                  ELSE Append(reports, Report(n, body))
    /\ all_pending' = (all_pending /\ body.state \in PendingStates)

RECURSIVE Concat(_)
Concat(ss) == IF ss = <<>> THEN <<>> ELSE Head(ss) \o Concat(Tail(ss))

----------------------------------------------------------------------------
(* DatabricksCursor.execute *)

\* faulty variant: the submit check accepts every 2xx code
SubmitRejected_Non2xx(code) == ~Is2xx(code)

\* line 51: the submit response is rejected
SubmitRejected(code) == code # 200

\* faulty variant: the loop polls until the statement has failed
StillExecuting_UntilFailed(res) == res.state # "FAILED"

\* line 61: the condition of the poll loop
StillExecuting(res) == res.state \in {"PENDING", "RUNNING"}

\* faulty variant: the loop has no cap
PollCapReached_Never(n) == FALSE

\* faulty variant: the cap is reached one poll early
PollCapReached_Early(n) == n + 1 >= max_polls

\* faulty variant: the cap is compared off by one
PollCapReached_OffByOne(n) == n > max_polls

\* line 62: the poll cap
PollCapReached(n) == n >= max_polls

\* faulty variant: only FAILED is treated as a failure
NotSucceeded_OnlyFailed(res) == res.state = "FAILED"

\* line 76: the statement did not succeed
NotSucceeded(res) == res.state # "SUCCEEDED"

\* faulty variant: the error names the state instead of the server's error payload
FailureDetail_State(res) == res.state

\* line 77: result.get('status', {}).get('error')
FailureDetail(res) == res.error

\* line 86: description holds one 7-tuple per schema column; its first field is the name
DescriptionOf(schema) == schema

\* line 96: chunk_data.get("data_array", [])
DataArrayOf(body) == IF body.has_data_array THEN body.data_array ELSE <<>>

\* every row of a data_array has one value per column of the schema
RowsFit(data, schema) == \A i \in 1 .. Len(data) : Len(data[i]) = Len(schema)

\* line 96: self._results.extend(...)
Extend(rs, data) == rs \o data

NotFetched == [done |-> FALSE, rows |-> <<>>, times |-> 0]

\* faulty variant: a failure is recorded and the poll loop is entered again
Raise_Retry(e) == pc' = "poll" /\ raised' = e

Raise(e) == pc' = "idle" /\ raised' = e
Return == pc' = "idle" /\ raised' = NoExc

\* lines 61-99 with result = res and poll_count = n, up to the next blocking call
Continue(res, n) ==
    IF StillExecuting(res)
    THEN IF PollCapReached(n)
         THEN Raise(TimeoutExc) /\ UNCHANGED <<description, results, chunk_pos>>
         ELSE pc' = "poll" /\ raised' = NoExc /\ UNCHANGED <<description, results, chunk_pos>>
    ELSE IF NotSucceeded(res)
    THEN Raise(QueryFailedExc(FailureDetail(res))) /\ UNCHANGED <<description, results, chunk_pos>>
    ELSE IF res.chunks # <<>>
    THEN /\ description' = DescriptionOf(res.schema)
         /\ chunk_pos' = 1
         /\ pc' = "chunks"
         /\ raised' = NoExc
         /\ UNCHANGED results
    ELSE /\ description' = <<>>
         /\ results' = <<>>
         /\ Return
         /\ UNCHANGED chunk_pos

\* lines 27-55: submit the statement; the POST blocks until answered or until it raises
Execute(bodies, cap) ==
    /\ pc = "idle"
    /\ calls < MaxCalls
    /\ calls' = calls + 1
    /\ pre_results' = results
    /\ served' = <<>>
    /\ fetched' = NotFetched
    /\ log' = <<PostEntry>>
    /\ all_returned' = (calls = 0 \/ (all_returned /\ raised = NoExc))
    /\ UNCHANGED <<well_formed, two, api, rest>>
    /\ poll_count' = 0
    /\ \/ \* requests.post raises, or the body is not JSON
          /\ Raise(RequestExc)
          /\ statement_id' = 0 /\ status_code' = 0 /\ result' = NoBody
          /\ post_response' = NoResponse /\ reports' = <<>> /\ all_pending' = FALSE
          /\ UNCHANGED <<chunk_pos, description, results>>
       \/ \E code \in Codes :
            /\ status_code' = code
            /\ IF SubmitRejected(code)
               THEN /\ \E t \in Texts :
                         /\ Raise(QueryFailedExc(t))
                         /\ post_response' = [status_code |-> code, text |-> t]
                    /\ statement_id' = 0 /\ result' = NoBody
                    /\ reports' = <<>> /\ all_pending' = FALSE
                    /\ UNCHANGED <<chunk_pos, description, results>>
               ELSE \E body \in Answers(bodies, 0, cap) :
                    /\ post_response' = [status_code |-> code, text |-> "json"]
                    /\ result' = body
                    /\ statement_id' = calls + 1
                    /\ all_pending' = (body.state \in PendingStates)
                    /\ reports' = IF body.state \in PendingStates THEN <<>>
                                  ELSE <<Report(0, body)>>
                    /\ Continue(body, 0)

\* lines 65-74: one iteration of the poll loop
Poll(bodies, cap) ==
    /\ pc = "poll"
    /\ poll_count' = poll_count + 1
    /\ log' = log \o <<SleepEntry, StatusGetEntry(statement_id)>>
    /\ UNCHANGED <<calls, statement_id, fetched, served, pre_results, post_response,
                   well_formed, all_returned, two, api, rest>>
    /\ \/ \* requests.get raises, or the body is not JSON
          /\ Raise(RequestExc)
          /\ all_pending' = FALSE
          /\ UNCHANGED <<status_code, result, chunk_pos, description, results, reports>>
       \/ \E code \in Codes, body \in Answers(bodies, NumOp(log, "GET") + 1, cap) :
            /\ status_code' = code
            /\ result' = body
            /\ Reported(body, NumOp(log, "GET") + 1)
            /\ Continue(body, poll_count + 1)

\* lines 89-96: one iteration of the chunk loop
FetchChunk ==
    /\ pc = "chunks"
    /\ log' = Append(log, ChunkGetEntry(statement_id, result.chunks[chunk_pos]))
    /\ UNCHANGED <<calls, statement_id, status_code, result, poll_count, description,
                   fetched, pre_results, post_response, reports, all_pending,
                   all_returned, two, api, rest>>
    /\ \/ \* requests.get raises, or the body is not JSON
          /\ Raise(RequestExc)
          /\ UNCHANGED <<chunk_pos, results, served, well_formed>>
       \/ \E resp \in ChunkResponses :
            /\ results' = Extend(results, DataArrayOf(resp.body))
            /\ well_formed' = (well_formed /\ RowsFit(DataArrayOf(resp.body), result.schema))
            /\ served' = Append(served, resp)
            /\ IF chunk_pos = Len(result.chunks)
               THEN Return /\ UNCHANGED chunk_pos
               ELSE /\ chunk_pos' = chunk_pos + 1
                    /\ UNCHANGED <<pc, raised>>

----------------------------------------------------------------------------
(* DatabricksCursor.fetchall *)

Min(a, b) == IF a < b THEN a ELSE b

\* line 109: dict(zip(columns, values)); a repeated column name keeps its last value
DictZip(columns, values) ==
    LET n == Min(Len(columns), Len(values))
        last(c) == CHOOSE i \in 1 .. n :
                       columns[i] = c /\ \A j \in 1 .. n : columns[j] = c => j <= i
    IN [c \in {columns[i] : i \in 1 .. n} |-> values[last(c)]]

\* lines 105-110: Row(values, columns)
Row(values, columns) ==
    [values |-> values, columns |-> columns, data |-> DictZip(columns, values)]

\* lines 116-119: Row.__getitem__ with an int key (i counts from 1 here)
GetItemInt(row, i) == row.values[i]

\* line 120: Row.__getitem__ with a column name
GetItemKey(row, key) == row.data[key]

\* line 122
Columns(desc) == IF desc = None \/ desc = <<>> THEN <<>> ELSE desc

\* line 123
FetchAllValue(desc, rs) == [i \in 1 .. Len(rs) |-> Row(rs[i], Columns(desc))]

\* enrichment_service.py line 89: sample_rows[:5]
SampleLimit == 5

\* enrichment_service.py lines 72-89 of get_table_metadata: dict(row._mapping) of the
\* first five rows of cursor.fetchall()
SampleData(rows) ==
    [i \in 1 .. Min(SampleLimit, Len(rows)) |-> rows[i].data]

\* faulty variant: fetchall hands the rows over and empties the list
KeptRows_Drained(rs) == <<>>

\* line 123: the comprehension reads self._results and leaves it as it is
KeptRows(rs) == rs

\* lines 103-123
Fetchall ==
    /\ pc = "idle"
    /\ fetched.times < MaxFetch
    /\ fetched' = [done |-> TRUE, rows |-> FetchAllValue(description, results),
                   times |-> fetched.times + 1]
    /\ results' = KeptRows(results)
    /\ UNCHANGED <<pc, calls, raised, description, locals, history, two, api, rest>>

----------------------------------------------------------------------------
(* Two cursors executing one statement each, concurrently.  Each request goes to  *)
(* a warehouse that answers from the statement the request's id names.             *)

Cursors == {"k1", "k2"}

\* line 25: self._results is an attribute of the instance
ResultsOwner(c) == c

\* lines 22-25 and the locals of execute; own and asked are history: the id the
\* warehouse gave this cursor's POST, and the ids its status and chunk GETs used
NewCursor ==
    [pc |-> "new", statement_id |-> 0, result |-> NoBody, poll_count |-> 0,
     chunk_pos |-> 0, description |-> None, raised |-> NoExc, own |-> 0, asked |-> {}]

\* a statement held by the warehouse: its schema, its chunks' data arrays, the
\* pending statuses it still reports, and the state it ends in
Stored(sch, data, left, final) ==
    [schema |-> sch, data |-> data, left |-> left, final |-> final]

StoredStatements ==
    {Stored(t[1], t[2], n, f) :
        t \in {<<<<"c1">>, <<<<<<"a">>>>>>>>,
               <<<<"c1", "c2">>, <<<<<<"b", "a">>>>, <<<<"a", "b">>>>>>>>,
               <<<<"c2">>, <<>>>>},
        n \in 0 .. MaxPending,
        f \in {"SUCCEEDED", "FAILED"}}

\* the body the warehouse answers a POST or a status GET with
StatusOf(st) ==
    IF st.left > 0 THEN Body("PENDING", "None", <<>>, <<>>)
    ELSE IF st.final = "FAILED" THEN Body("FAILED", "err1", <<>>, <<>>)
    ELSE Body("SUCCEEDED", "None", [i \in 1 .. Len(st.data) |-> i - 1], st.schema)

\* lines 61-99 for cursor c, whose record becomes rec, up to the next blocking call
ContinueOn(c, rec, res, n) ==
    IF StillExecuting(res)
    THEN /\ cur' = [cur EXCEPT ![c] =
                 IF PollCapReached(n)
                 THEN [rec EXCEPT !.pc = "done", !.raised = TimeoutExc]
                 ELSE [rec EXCEPT !.pc = "poll"]]
         /\ UNCHANGED store
    ELSE IF NotSucceeded(res)
    THEN /\ cur' = [cur EXCEPT ![c] =
                 [rec EXCEPT !.pc = "done",
                             !.raised = QueryFailedExc(FailureDetail(res))]]
         /\ UNCHANGED store
    ELSE IF res.chunks # <<>>
    THEN /\ cur' = [cur EXCEPT ![c] =
                 [rec EXCEPT !.description = DescriptionOf(res.schema),
                             !.chunk_pos = 1, !.pc = "chunks"]]
         /\ UNCHANGED store
    ELSE /\ cur' = [cur EXCEPT ![c] = [rec EXCEPT !.description = <<>>, !.pc = "done"]]
         /\ store' = [store EXCEPT ![ResultsOwner(c)] = <<>>]

\* lines 27-55 on cursor c: the warehouse stores a statement and answers with its id
ExecuteOn(c) ==
    /\ cur[c].pc = "new"
    /\ \E st \in StoredStatements :
         LET id == Len(warehouse) + 1
         IN /\ warehouse' = Append(warehouse, st)
            /\ ContinueOn(c, [cur[c] EXCEPT !.statement_id = id, !.own = id,
                                            !.result = StatusOf(st)],
                          StatusOf(st), 0)
    /\ UNCHANGED <<pc, calls, raised, fetched, cursor, locals, history, api, rest>>

\* lines 65-74 on cursor c: the status GET names the statement by the local statement_id
PollOn(c) ==
    /\ cur[c].pc = "poll"
    /\ LET id == cur[c].statement_id
           st == [warehouse[id] EXCEPT !.left = @ - 1]
       IN /\ warehouse' = [warehouse EXCEPT ![id] = st]
          /\ ContinueOn(c, [cur[c] EXCEPT !.poll_count = @ + 1, !.result = StatusOf(st),
                                          !.asked = @ \cup {id}],
                        StatusOf(st), cur[c].poll_count + 1)
    /\ UNCHANGED <<pc, calls, raised, fetched, cursor, locals, history, api, rest>>

\* lines 89-96 on cursor c: the chunk GET names the statement by the local statement_id
FetchChunkOn(c) ==
    /\ cur[c].pc = "chunks"
    /\ LET id == cur[c].statement_id
           ci == cur[c].result.chunks[cur[c].chunk_pos]
           body == ChunkBody(TRUE, warehouse[id].data[ci + 1])
       IN /\ store' = [store EXCEPT ![ResultsOwner(c)] = Extend(@, DataArrayOf(body))]
          /\ cur' = [cur EXCEPT ![c] =
                 IF cur[c].chunk_pos = Len(cur[c].result.chunks)
                 THEN [@ EXCEPT !.pc = "done", !.asked = @ \cup {id}]
                 ELSE [@ EXCEPT !.chunk_pos = @ + 1, !.asked = @ \cup {id}]]
    /\ UNCHANGED <<pc, calls, raised, fetched, cursor, locals, history, api, warehouse, rest>>

----------------------------------------------------------------------------
(* The HTTP endpoints of main.py: each offloads a worker to a thread with        *)
(* asyncio.to_thread and awaits it under asyncio.wait_for.  The worker opens its  *)
(* own connection and cursor and executes one statement.                          *)

\* /api/catalogs, /api/table-description, /api/update-description
Endpoints == {"catalogs", "table-description", "update-description"}

Reply(code, detail) == [status_code |-> code, detail |-> detail]

\* enrichment_service.py lines 437-439: get_current_table_description catches every
\* exception and returns None; get_catalogs and update_table_comment re-raise
Swallows(ep) == ep = "table-description"

\* get_catalogs and get_current_table_description call cursor.fetchall()
ReadsRows(ep) == ep \in {"catalogs", "table-description"}

\* faulty variant: the timeout stops the thread
WorkerAfterTimeout_Cancelled(w) == "cancelled"

\* main.py lines 71-74: wait_for cancels the awaited future; the thread started by
\* to_thread cannot be cancelled and runs on
WorkerAfterTimeout(w) == w

\* faulty variant: the endpoints wait as long as the generate endpoints do
OuterTimeoutOf_Long(ep) == 120

\* main.py lines 74, 175, 360: the timeout of asyncio.wait_for, in seconds
OuterTimeoutOf(ep) == IF ep = "catalogs" THEN 60 ELSE 30

\* the least time the worker has run: every sleep of the log lasted poll_sleep seconds
MinElapsed(lg) == poll_sleep * NumOp(lg, "SLEEP")

\* the outer timeout has certainly elapsed and wait_for has not acted on it yet; it
\* acts before anything that happens later
TimerDue ==
    /\ worker # "none"
    /\ response = NoReply
    /\ MinElapsed(log) >= OuterTimeoutOf(endpoint)

\* main.py lines 71-74, 174-177, 356-361: the request arrives, the worker is started
Request(ep) ==
    /\ endpoint = "none"
    /\ endpoint' = ep
    /\ worker' = "running"
    /\ UNCHANGED <<response, cut_at, pc, calls, raised, fetched, cursor, locals,
                   history, two, rest>>

\* the worker's cursor.execute(query) on its fresh cursor
WorkerExecute(cap) ==
    /\ worker = "running"
    /\ calls = 0
    /\ Execute(PollBodies, cap)

WorkerPoll(cap) == worker = "running" /\ ~TimerDue /\ Poll(PollBodies, cap)

WorkerFetchChunk == worker = "running" /\ ~TimerDue /\ FetchChunk

\* the rest of the worker after execute: fetchall where the service calls it, then the
\* service function returns, or the exception of execute leaves the thread
WorkerReturn ==
    /\ worker = "running"
    /\ ~TimerDue
    /\ pc = "idle"
    /\ calls = 1
    /\ worker' = IF raised # NoExc /\ ~Swallows(endpoint) THEN "raised" ELSE "returned"
    /\ fetched' = IF raised = NoExc /\ ReadsRows(endpoint)
                  THEN [done |-> TRUE, rows |-> FetchAllValue(description, results),
                        times |-> fetched.times + 1]
                  ELSE fetched
    /\ UNCHANGED <<endpoint, response, cut_at, pc, calls, raised, cursor, locals,
                   history, two, rest>>

\* main.py lines 75-90, 179-186, 363-371: the await returns the worker's value (200) or
\* raises its exception (500)
Deliver ==
    /\ response = NoReply
    /\ ~TimerDue
    /\ worker \in {"returned", "raised"}
    /\ response' = IF worker = "raised" THEN Reply(500, raised.msg) ELSE Reply(200, "")
    /\ UNCHANGED <<endpoint, worker, cut_at, pc, calls, raised, fetched, cursor, locals,
                   history, two, rest>>

\* main.py lines 76-79, 183-184, 365-366: wait_for raises TimeoutError before the
\* worker's outcome reached the event loop
OuterTimeout ==
    /\ response = NoReply
    /\ worker # "none"
    /\ response' = Reply(504, "timed out")
    /\ worker' = IF worker = "running" THEN WorkerAfterTimeout(worker) ELSE worker
    /\ cut_at' = IF worker = "running" THEN Len(log) ELSE cut_at
    /\ UNCHANGED <<endpoint, pc, calls, raised, fetched, cursor, locals, history, two, rest>>

----------------------------------------------------------------------------
(* update_column_comments (enrichment_service.py lines 358-384): one ALTER TABLE  *)
(* statement per entry of the mapping, all on one cursor                          *)

NoUpdate == [state |-> "none", mapping |-> <<>>, closed |-> FALSE]

\* column_descriptions.items(): the column names in the order of the dict
Mappings ==
    {m \in UNION {[1 .. n -> ColNames] : n \in 0 .. MaxCalls} :
        \A i, j \in 1 .. Len(m) : i # j => m[i] # m[j]}

\* line 375: the column the i-th statement alters
AlterOf(m, i) == m[i]

\* faulty variant: the loop goes on to the next column after a failure
LoopGoesOn_Always(exc) == TRUE

\* lines 370-381: an exception of cursor.execute leaves the for loop
LoopGoesOn(exc) == exc = NoExc

\* line 367: cursor = connection.cursor()
UpdBegin(m) ==
    /\ upd.state = "none"
    /\ upd' = [state |-> "running", mapping |-> m, closed |-> FALSE]
    /\ UNCHANGED <<cursorVars, two, api, enrich, auth>>

\* line 378: cursor.execute(query) for the next entry of the mapping
UpdExecute ==
    /\ upd.state = "running"
    /\ calls < Len(upd.mapping)
    /\ LoopGoesOn(raised)
    /\ Execute(PollBodies, MaxPending)

UpdPoll == upd.state = "running" /\ Poll(PollBodies, MaxPending)

UpdFetchChunk == upd.state = "running" /\ FetchChunk

\* lines 380-384: the loop is over or an exception left it; finally closes the cursor
UpdEnd ==
    /\ upd.state = "running"
    /\ pc = "idle"
    /\ calls = Len(upd.mapping) \/ ~LoopGoesOn(raised)
    /\ upd' = [upd EXCEPT !.state = IF raised # NoExc THEN "raised" ELSE "returned",
                          !.closed = TRUE]
    /\ UNCHANGED <<cursorVars, two, api, enrich, auth>>

----------------------------------------------------------------------------
(* Column descriptions (enrichment_service.py).  A Python string is the sequence  *)
(* of its characters; a value is a record of its type and, for a str, its         *)
(* characters.                                                                     *)

PyNone == [type |-> "NoneType", chars |-> <<>>]
PyInt == [type |-> "int", chars |-> <<>>]
Str(chars) == [type |-> "str", chars |-> chars]

\* str.lower() on the letters the model uses
LowerChar(c) ==
    CASE c = "N" -> "n" [] c = "U" -> "u" [] c = "L" -> "l" [] c = "O" -> "o"
      [] c = "E" -> "e" [] OTHER -> c
Lower(s) == [i \in 1 .. Len(s) |-> LowerChar(s[i])]

\* str.strip(): leading and trailing blanks removed
RECURSIVE LStrip(_)
LStrip(s) == IF s # <<>> /\ Head(s) = " " THEN LStrip(Tail(s)) ELSE s
RECURSIVE RStrip(_)
RStrip(s) ==
    IF s # <<>> /\ s[Len(s)] = " " THEN RStrip(SubSeq(s, 1, Len(s) - 1)) ELSE s
Strip(s) == RStrip(LStrip(s))

\* line 25: ("null", "none", "nan", "n/a", "-")
Placeholders ==
    {<<"n", "u", "l", "l">>, <<"n", "o", "n", "e">>, <<"n", "a", "n">>,
     <<"n", "/", "a">>, <<"-">>}

\* line 29: anything longer than 3 chars is valid
valid_above == 3

\* lines 14-32: _is_missing_description
IsMissingDescription(desc) ==
    IF desc = PyNone THEN TRUE
    ELSE IF desc.type # "str" THEN TRUE
    ELSE LET s == Strip(desc.chars)
         IN IF s = <<>> THEN TRUE
            ELSE IF Lower(s) \in Placeholders THEN TRUE
            ELSE IF Len(s) > valid_above THEN FALSE
            ELSE TRUE

\* what DESCRIBE TABLE can return: rows (col_name, data_type, comment)
DescribeNames == {<<>>, <<"#", "p">>, <<"a">>, <<"b">>}
DescribeComments ==
    {PyNone, PyInt, Str(<<>>), Str(<<"a", "b", "c">>), Str(<<"a", "b", "c", "d">>),
     Str(<<" ", "a", "b", " ", " ">>), Str(<<"N", "U", "L", "L">>),
     Str(<<"N", "o", "n", "e">>), Str(<<"-">>)}
DescribeRows ==
    {[col_name |-> n, data_type |-> "int", comment |-> c] :
        n \in DescribeNames, c \in DescribeComments}
DescribeResults == UNION {[1 .. n -> DescribeRows] : n \in 0 .. MaxRows}

\* lines 58 and 464: if col_name and not col_name.startswith('#')
IsColumnRow(row) == row.col_name # <<>> /\ Head(row.col_name) # "#"

\* lines 46-65 of get_table_metadata: table_meta["columns"]
TableMetaColumns(rows) ==
    LET kept == SelectSeq(rows, IsColumnRow)
    IN [i \in 1 .. Len(kept) |->
           [name |-> kept[i].col_name, type |-> kept[i].data_type,
            description |-> kept[i].comment]]

\* faulty variant: every column is sent as needing a description
NeedsDescription_All(col) == TRUE

\* line 279: the filter of missing_columns
NeedsDescription(col) == IsMissingDescription(col.description)

NoGenerated == [llm_calls |-> 0, needing |-> <<>>, context |-> <<>>, empty |-> FALSE]

\* lines 260-342 of generate_column_descriptions: the number of LLM calls, the
\* "Columns needing descriptions" and the "Other columns with descriptions" of the
\* prompt, and whether [] was returned without a call
GenerateColumnDescriptions(rows) ==
    LET cols == TableMetaColumns(rows)
        missing_columns == SelectSeq(cols, NeedsDescription)
        other_cols_context ==
            SelectSeq(cols, LAMBDA col : ~IsMissingDescription(col.description))
    IN IF missing_columns = <<>>
       THEN [llm_calls |-> 0, needing |-> <<>>, context |-> <<>>, empty |-> TRUE]
       ELSE [llm_calls |-> 1,
             needing |-> [i \in 1 .. Len(missing_columns) |->
                             [name |-> missing_columns[i].name,
                              type |-> missing_columns[i].type]],
             context |-> other_cols_context,
             empty |-> FALSE]

\* faulty variant: a column is flagged only when it has no comment at all
FlaggedMissing_NoneOnly(comment) == comment = PyNone

\* line 469: "is_missing": _is_missing_description(col_comment)
FlaggedMissing(comment) == IsMissingDescription(comment)

\* lines 442-474: get_column_metadata
GetColumnMetadata(rows) ==
    LET kept == SelectSeq(rows, IsColumnRow)
    IN [i \in 1 .. Len(kept) |->
           [name |-> kept[i].col_name, type |-> kept[i].data_type,
            description |-> kept[i].comment,
            is_missing |-> FlaggedMissing(kept[i].comment)]]

NoEnrich ==
    [described |-> FALSE, rows |-> <<>>, meta_done |-> FALSE, meta |-> <<>>,
     gen_done |-> FALSE, gen |-> NoGenerated]

\* the table is fixed: DESCRIBE TABLE returns rows
Describe ==
    /\ ~enrich.described
    /\ \E rows \in DescribeResults :
         enrich' = [enrich EXCEPT !.described = TRUE, !.rows = rows]
    /\ UNCHANGED <<cursorVars, two, api, upd, auth>>

GetColumnMetadataCall ==
    /\ enrich.described
    /\ ~enrich.meta_done
    /\ enrich' = [enrich EXCEPT !.meta_done = TRUE, !.meta = GetColumnMetadata(enrich.rows)]
    /\ UNCHANGED <<cursorVars, two, api, upd, auth>>

GenerateColumnDescriptionsCall ==
    /\ enrich.described
    /\ ~enrich.gen_done
    /\ enrich' = [enrich EXCEPT !.gen_done = TRUE,
                                !.gen = GenerateColumnDescriptions(enrich.rows)]
    /\ UNCHANGED <<cursorVars, two, api, upd, auth>>

----------------------------------------------------------------------------
(* Sessions (src/app/auth_service.py) and the authenticated app                   *)
(* (src/app - Copy (3)/main.py).  get_current_user is a sync dependency and runs  *)
(* in a worker thread; login and logout are coroutines without an await and run   *)
(* on the event loop.  A thread can be preempted between two accesses of the       *)
(* sessions dict, so each access is a step.  sessions is a function from the ids   *)
(* 1 .. minted that are in the store; a removed id maps to Gone.                   *)

Threads == {"t1", "t2"}

NoCookie == -1       \* the request carries no session_id cookie
Bogus == 0           \* a cookie value create_session never made
Gone == [expires_at |-> -1]
NoSession == [expires_at |-> -2]

InStore(id) == id \in DOMAIN sessions /\ sessions[id] # Gone

IdleThread ==
    [pc |-> "idle", sid |-> NoCookie, session |-> NoSession, outcome |-> "none",
     valid |-> FALSE, late |-> FALSE]
IdleLoop == [pc |-> "idle", sid |-> NoCookie, outcome |-> "none", revoke_raised |-> FALSE]

\* an HTTP call of authenticate_user: it raises, or answers with a status code and a
\* body that the code can read or cannot (user_data with an empty emails list)
Http(raised_, code, readable) == [raised |-> raised_, code |-> code, readable |-> readable]
HttpOk == Http(FALSE, 200, TRUE)
HttpOutcomes ==
    {Http(TRUE, 0, TRUE), HttpOk, Http(FALSE, 200, FALSE), Http(FALSE, 401, TRUE),
     Http(FALSE, 500, TRUE)}

NoLogin ==
    [done |-> FALSE, cred |-> HttpOk, token |-> HttpOk, user |-> HttpOk,
     result |-> "none", reply |-> 0]

\* line 86: except Exception catches whatever the try block raises
ExceptionCaught(resp) == TRUE

\* faulty variant: every credential check that is not a 401 is accepted
CredentialsRejected_Only401(resp) == resp.code = 401

\* lines 33-39: 401 or any other code than 200
CredentialsRejected(resp) == resp.code = 401 \/ resp.code # 200

\* lines 17-88: authenticate_user; "None" or "auth".  An exception of any of the three
\* HTTP calls, of token_response.json() or of user_data...[0] is caught at line 86
Throws(resp) == resp.raised \/ (resp.code = 200 /\ ~resp.readable)
OnException(resp) == IF ExceptionCaught(resp) THEN "None" ELSE "raised"
AuthenticateUser(cred, token, user) ==
    IF cred.raised THEN OnException(cred)
    ELSE IF CredentialsRejected(cred) THEN "None"
    ELSE IF Throws(token) THEN OnException(token)
    ELSE IF Throws(user) THEN OnException(user)
    ELSE "auth"

\* line 101: expires_at
ExpiresAt(created_at) == created_at + SessionTicks

\* line 116: datetime.now() > expires_at
Expired(at, expires_at) == at > expires_at

\* faulty variant: the session is removed only when the revocation went through
RemovedAfterRevoke_OnlyIfRevoked(revoke_raised) == ~revoke_raised

\* lines 128-140: the del of line 140 is outside the try
RemovedAfterRevoke(revoke_raised) == TRUE

\* the clock
Tick ==
    /\ now < MaxTime
    /\ now' = now + 1
    /\ UNCHANGED <<sessions, minted, thr, loop, deleted, login, cursorVars, two, api,
                   upd, enrich>>

\* main.py lines 83-113: login, with authenticate_user and create_session (lines 91-104)
Login(cred, token, user) ==
    /\ loop.pc = "idle"
    /\ minted < MaxLogins
    /\ LET auth_data == AuthenticateUser(cred, token, user)
           attempt == [done |-> TRUE, cred |-> cred, token |-> token, user |-> user,
                       result |-> auth_data, reply |-> 0]
       IN IF auth_data = "raised"
          THEN /\ login' = [attempt EXCEPT !.reply = 500]
               /\ UNCHANGED <<sessions, minted>>
          ELSE IF auth_data = "None"
          THEN /\ login' = [attempt EXCEPT !.reply = 401]
               /\ UNCHANGED <<sessions, minted>>
          ELSE /\ sessions' = Append(sessions, [expires_at |-> ExpiresAt(now)])
               /\ minted' = minted + 1
               /\ login' = [attempt EXCEPT !.reply = 200]
    /\ UNCHANGED <<now, thr, loop, deleted, cursorVars, two, api, upd, enrich>>

Cookies == {NoCookie, Bogus} \cup (1 .. minted)

\* main.py lines 116-119: logout with the request's cookie
LogoutBegin(sid) ==
    /\ loop.pc = "idle"
    /\ IF sid = NoCookie
       THEN loop' = [IdleLoop EXCEPT !.outcome = "returned"]
       ELSE loop' = [pc |-> "in", sid |-> sid, outcome |-> "none", revoke_raised |-> FALSE]
    /\ UNCHANGED <<sessions, now, minted, thr, deleted, login, cursorVars, two, api,
                   upd, enrich>>

\* line 125: if session_id in sessions
DeleteCheck ==
    /\ loop.pc = "in"
    /\ IF InStore(loop.sid)
       THEN loop' = [loop EXCEPT !.pc = "read"] /\ UNCHANGED deleted
       ELSE /\ loop' = [IdleLoop EXCEPT !.outcome = "returned", !.sid = loop.sid]
            /\ deleted' = deleted \cup {loop.sid}
    /\ UNCHANGED <<sessions, now, minted, thr, login, cursorVars, two, api, upd, enrich>>

\* line 127: session = sessions[session_id], a KeyError if the session is gone
DeleteRead ==
    /\ loop.pc = "read"
    /\ IF InStore(loop.sid)
       THEN loop' = [loop EXCEPT !.pc = "del"]
       ELSE loop' = [IdleLoop EXCEPT !.outcome = "KeyError", !.sid = loop.sid]
    /\ UNCHANGED <<sessions, now, minted, thr, deleted, login, cursorVars, two, api,
                   upd, enrich>>

\* lines 128-140: the revocation request, whose exception is swallowed, then
\* del sessions[session_id], a KeyError if the session is gone
DeleteDel(revoke_raised) ==
    /\ loop.pc = "del"
    /\ IF ~RemovedAfterRevoke(revoke_raised)
       THEN /\ loop' = [IdleLoop EXCEPT !.outcome = "returned", !.sid = loop.sid,
                                        !.revoke_raised = revoke_raised]
            /\ deleted' = deleted \cup {loop.sid}
            /\ UNCHANGED sessions
       ELSE IF InStore(loop.sid)
       THEN /\ sessions' = [sessions EXCEPT ![loop.sid] = Gone]
            /\ loop' = [IdleLoop EXCEPT !.outcome = "returned", !.sid = loop.sid,
                                        !.revoke_raised = revoke_raised]
            /\ deleted' = deleted \cup {loop.sid}
       ELSE /\ loop' = [IdleLoop EXCEPT !.outcome = "KeyError", !.sid = loop.sid,
                                        !.revoke_raised = revoke_raised]
            /\ UNCHANGED <<sessions, deleted>>
    /\ UNCHANGED <<now, minted, thr, login, cursorVars, two, api, upd, enrich>>

\* main.py lines 68-71: a request to a protected endpoint reaches get_current_user
LookupBegin(t, sid) ==
    /\ thr[t].pc = "idle"
    /\ thr' = [thr EXCEPT ![t] =
           IF sid = NoCookie
           THEN [IdleThread EXCEPT !.outcome = "401"]
           ELSE [IdleThread EXCEPT !.pc = "check", !.sid = sid,
                                   !.late = sid \in deleted]]
    /\ UNCHANGED <<sessions, now, minted, loop, deleted, login, cursorVars, two, api,
                   upd, enrich>>

\* line 109: session_id not in sessions
GetSessionCheck(t) ==
    /\ thr[t].pc = "check"
    /\ thr' = [thr EXCEPT ![t] =
           IF InStore(thr[t].sid)
           THEN [@ EXCEPT !.pc = "read"]
           ELSE [@ EXCEPT !.pc = "idle", !.outcome = "401"]]
    /\ UNCHANGED <<sessions, now, minted, loop, deleted, login, cursorVars, two, api,
                   upd, enrich>>

\* line 112: session = sessions[session_id], a KeyError if the session is gone
GetSessionRead(t) ==
    /\ thr[t].pc = "read"
    /\ thr' = [thr EXCEPT ![t] =
           IF InStore(thr[t].sid)
           THEN [@ EXCEPT !.pc = "expiry", !.session = sessions[thr[t].sid],
                          !.valid = now <= sessions[thr[t].sid].expires_at]
           ELSE [@ EXCEPT !.pc = "idle", !.outcome = "KeyError"]]
    /\ UNCHANGED <<sessions, now, minted, loop, deleted, login, cursorVars, two, api,
                   upd, enrich>>

\* lines 115-120, then main.py lines 74-78 and the handler: an expired session is
\* removed (a KeyError if it is gone) and the request answered 401; otherwise the
\* handler runs and submits its statement
GetSessionExpiry(t) ==
    /\ thr[t].pc = "expiry"
    /\ IF Expired(now, thr[t].session.expires_at)
       THEN IF InStore(thr[t].sid)
            THEN /\ sessions' = [sessions EXCEPT ![thr[t].sid] = Gone]
                 /\ thr' = [thr EXCEPT ![t] = [@ EXCEPT !.pc = "idle", !.outcome = "401",
                                                        !.session = NoSession]]
            ELSE /\ thr' = [thr EXCEPT ![t] = [@ EXCEPT !.pc = "idle",
                                                        !.outcome = "KeyError",
                                                        !.session = NoSession]]
                 /\ UNCHANGED sessions
       ELSE /\ thr' = [thr EXCEPT ![t] = [@ EXCEPT !.pc = "idle", !.outcome = "ran",
                                                   !.session = NoSession]]
            /\ UNCHANGED sessions
    /\ UNCHANGED <<now, minted, loop, deleted, login, cursorVars, two, api, upd, enrich>>

----------------------------------------------------------------------------

Init ==
    /\ pc = "idle"
    /\ calls = 0
    /\ statement_id = 0
    /\ status_code = 0
    /\ result = NoBody
    /\ poll_count = 0
    /\ chunk_pos = 0
    /\ description = None
    /\ results = <<>>
    /\ raised = NoExc
    /\ fetched = NotFetched
    /\ log = <<>>
    /\ served = <<>>
    /\ pre_results = <<>>
    /\ post_response = NoResponse
    /\ reports = <<>>
    /\ all_pending = FALSE
    /\ well_formed = TRUE
    /\ all_returned = TRUE
    /\ cur = [c \in Cursors |-> NewCursor]
    /\ store = [c \in Cursors |-> <<>>]
    /\ warehouse = <<>>
    /\ endpoint = "none"
    /\ worker = "none"
    /\ response = NoReply
    /\ cut_at = -1
    /\ upd = NoUpdate
    /\ enrich = NoEnrich
    /\ sessions = <<>>
    /\ now = 0
    /\ minted = 0
    /\ thr = [t \in Threads |-> IdleThread]
    /\ loop = IdleLoop
    /\ deleted = {}
    /\ login = NoLogin

\* The cursor against a warehouse that answers with any manifest and reports a
\* terminal status after at most MaxPending pending ones.
Next ==
    \/ Execute(Bodies, MaxPending)
    \/ Poll(Bodies, MaxPending)
    \/ FetchChunk
    \/ Fetchall

Spec == Init /\ [][Next]_vars

\* The cursor against a warehouse that may report PENDING or RUNNING for ever and
\* answers with one of two manifests.
NextPoll ==
    \/ Execute(PollBodies, max_polls + 1)
    \/ Poll(PollBodies, max_polls + 1)
    \/ FetchChunk
    \/ Fetchall

SpecPoll == Init /\ [][NextPoll]_vars

\* Two cursors, each running one execute, their blocking calls interleaved in any order
NextTwo ==
    \E c \in Cursors :
        \/ ExecuteOn(c)
        \/ PollOn(c)
        \/ FetchChunkOn(c)

SpecTwo == Init /\ [][NextTwo]_vars

\* One call of update_column_comments on a fresh cursor
NextUpdate ==
    \/ \E m \in Mappings : UpdBegin(m)
    \/ UpdExecute
    \/ UpdPoll
    \/ UpdFetchChunk
    \/ UpdEnd

SpecUpdate == Init /\ [][NextUpdate]_vars

\* The two column services applied to the DESCRIBE rows of one table
NextEnrich ==
    \/ Describe
    \/ GetColumnMetadataCall
    \/ GenerateColumnDescriptionsCall

SpecEnrich == Init /\ [][NextEnrich]_vars

\* The authenticated app: logins, logouts and requests to protected endpoints
NextAuth ==
    \/ Tick
    \/ \E cred \in {HttpOk, Http(FALSE, 401, TRUE)} : Login(cred, HttpOk, HttpOk)
    \/ \E sid \in Cookies : LogoutBegin(sid)
    \/ DeleteCheck
    \/ DeleteRead
    \/ \E revoke_raised \in BOOLEAN : DeleteDel(revoke_raised)
    \/ \E t \in Threads :
          \/ \E sid \in Cookies : LookupBegin(t, sid)
          \/ GetSessionCheck(t)
          \/ GetSessionRead(t)
          \/ GetSessionExpiry(t)

SpecAuth == Init /\ [][NextAuth]_vars

\* Logins only, with every outcome of the three HTTP calls of authenticate_user
NextLogin ==
    \/ Tick
    \/ \E cred, token, user \in HttpOutcomes : Login(cred, token, user)

SpecLogin == Init /\ [][NextLogin]_vars

\* One HTTP request served by an endpoint
NextApi ==
    \/ \E ep \in Endpoints : Request(ep)
    \/ WorkerExecute(MaxPending)
    \/ WorkerPoll(MaxPending)
    \/ WorkerFetchChunk
    \/ WorkerReturn
    \/ Deliver
    \/ OuterTimeout

SpecApi == Init /\ [][NextApi]_vars

\* The same against a warehouse that may report PENDING or RUNNING for ever
NextApiLong ==
    \/ \E ep \in Endpoints : Request(ep)
    \/ WorkerExecute(max_polls + 1)
    \/ WorkerPoll(max_polls + 1)
    \/ WorkerFetchChunk
    \/ WorkerReturn
    \/ Deliver
    \/ OuterTimeout

SpecApiLong == Init /\ [][NextApiLong]_vars

\* The same, with the worker thread scheduled until it ends and each of its blocking
\* HTTP calls eventually returning or raising (db.py lines 48, 72, 93)
SpecApiFair ==
    /\ SpecApi
    /\ WF_vars(WorkerExecute(MaxPending))
    /\ WF_vars(WorkerPoll(MaxPending))
    /\ WF_vars(WorkerFetchChunk)
    /\ WF_vars(WorkerReturn)

\* The same, with every blocking HTTP call of execute eventually returning or raising
\* (requests.post / requests.get carry a timeout, lines 48, 72, 93).
SpecPollFair ==
    /\ SpecPoll
    /\ WF_vars(Poll(PollBodies, max_polls + 1))
    /\ WF_vars(FetchChunk)

----------------------------------------------------------------------------
(* Vocabulary of the properties *)

Returned == pc = "idle" /\ calls > 0 /\ raised = NoExc
Failed == pc = "idle" /\ raised # NoExc

\* the chunk indexes the chunk GETs of the log asked for, in order
ChunkGets(lg) ==
    LET gets == SelectSeq(lg, LAMBDA e : e.op = "CHUNK")
    IN [i \in 1 .. Len(gets) |-> gets[i].chunk_index]

AllServedOk ==
    \A i \in 1 .. Len(served) :
        served[i].status_code = 200 /\ served[i].body.has_data_array

\* data_array(c1) ++ ... ++ data_array(cn) of the chunks answered so far
ServedRows == Concat([i \in 1 .. Len(served) |-> DataArrayOf(served[i].body)])

\* the log is POST, then n times (sleep, status GET), then chunk GETs only
PollShape(n) ==
    /\ Len(log) >= 2 * n + 1
    /\ log[1] = PostEntry
    /\ \A k \in 1 .. n :
          log[2 * k] = SleepEntry /\ log[2 * k + 1] = StatusGetEntry(statement_id)
    /\ \A j \in (2 * n + 2) .. Len(log) : log[j].op = "CHUNK"

----------------------------------------------------------------------------
(* Properties *)

\* C1 (as claimed): when execute returns for a manifest listing chunks c1..cn, every
\* one answered with a data_array, the chunk GETs were issued once per chunk in
\* manifest order and self._results equals data_array(c1) ++ ... ++ data_array(cn).
C1_RowsAreChunkConcat ==
    (Returned /\ result.chunks # <<>> /\ AllServedOk) =>
        /\ ChunkGets(log) = result.chunks
        /\ results = ServedRows

\* C2: if the N-th status GET (N < 60; N = 0 is the POST) is the first response to
\* report SUCCEEDED, the log holds exactly N status GETs, each right after one sleep,
\* and all chunk GETs come after the last status GET.
C2_ExactlyNPollsThenChunks ==
    \A i \in 1 .. Len(reports) :
        ( /\ reports[i].state = "SUCCEEDED"
          /\ \A j \in 1 .. (i - 1) : reports[j].state # "SUCCEEDED"
          /\ reports[i].at < max_polls )
        => (pc # "poll" /\ PollShape(reports[i].at))

C2_Witness ==
    /\ Returned
    /\ reports = <<[at |-> max_polls - 1, state |-> "SUCCEEDED", error |-> "None"]>>
    /\ NumOp(log, "CHUNK") = 1

\* C3: once the initial response and 60 status GETs have all reported PENDING or
\* RUNNING, execute has raised the timeout error and has issued no chunk GET.
C3_TimeoutAfterCap ==
    (all_pending /\ NumOp(log, "GET") = max_polls) =>
        (Failed /\ raised = TimeoutExc /\ NumOp(log, "CHUNK") = 0)

C3_Witness ==
    all_pending /\ NumOp(log, "GET") = max_polls /\ raised = TimeoutExc

\* C4: when the initial response or a status GET reports FAILED, execute has raised
\* the query-failed error carrying status.error, and the log holds no status GET after
\* that response and no chunk GET.
C4_FailedStatusRaises ==
    \A i \in 1 .. Len(reports) :
        reports[i].state = "FAILED" =>
            /\ Failed
            /\ raised = QueryFailedExc(reports[i].error)
            /\ NumOp(log, "GET") = reports[i].at
            /\ NumOp(log, "CHUNK") = 0

C4_Witness ==
    /\ Failed
    /\ raised = QueryFailedExc("err2")
    /\ \E i \in 1 .. Len(reports) : reports[i].state = "FAILED" /\ reports[i].at >= 1

\* C5 (as claimed): after a first response SUCCEEDED with zero chunks, self._results
\* is empty and self.description holds the column names of the manifest schema.
C5_EmptyChunksKeepSchema ==
    (Returned /\ NumOp(log, "GET") = 0 /\ result.state = "SUCCEEDED"
        /\ result.chunks = <<>>) =>
        (results = <<>> /\ description = DescriptionOf(result.schema))

\* C6 (as claimed): fetchall after a successful execute returns exactly the rows of
\* that statement's chunks, and no row of an earlier execute on the cursor.
C6_FetchallReturnsOwnRows ==
    (Returned /\ fetched.done) =>
        [i \in 1 .. Len(fetched.rows) |-> fetched.rows[i].values] = ServedRows

\* C7 (as claimed): once a chunk GET was answered non-2xx, execute has failed with
\* the query-failed error and that chunk GET is the last request it made.
C7_ChunkErrorFails ==
    \A i \in 1 .. Len(served) :
        ~Is2xx(served[i].status_code) =>
            (Failed /\ raised.msg = "Query failed" /\ i = Len(served))

\* C8 (as claimed): once a status GET was answered non-2xx, execute has failed with
\* the query-failed error.
C8_PollErrorFails ==
    (NumOp(log, "GET") > 0 /\ status_code # 0 /\ ~Is2xx(status_code)) =>
        (Failed /\ raised.msg = "Query failed")

\* the submit was answered and execute raised on line 52, before any other request
RejectedAtSubmit ==
    /\ Failed
    /\ raised = QueryFailedExc(post_response.text)
    /\ log = <<PostEntry>>
    /\ result = NoBody

\* C9 (as claimed): a non-2xx submit response makes execute fail at once with the raw
\* body and without any GET, and every 2xx submit response is accepted.
C9_Every2xxAccepted ==
    post_response # NoResponse =>
        IF Is2xx(post_response.status_code) THEN ~RejectedAtSubmit ELSE RejectedAtSubmit

\* C9 (amended): a submit response with any status code other than 200 makes execute
\* fail at once with the raw body and without any GET; only 200 is accepted.
C9_Only200Accepted ==
    post_response # NoResponse =>
        IF post_response.status_code = 200 THEN ~RejectedAtSubmit ELSE RejectedAtSubmit

C9_Witness ==
    /\ post_response = [status_code |-> 201, text |-> "body2"]
    /\ RejectedAtSubmit

\* C10 (as claimed): when execute fails after some chunks were fetched, none of their
\* rows is left in self._results: it is empty or what it was before the call.
C10_NoPartialRows ==
    (Failed /\ Len(served) > 0) => results \in {<<>>, pre_results}

\* C11 (as claimed): for every row fetchall returns and every index valid in the row
\* and in its column names, row[i] equals row[column_names[i]].
C11_PositionAndNameAgree ==
    fetched.done =>
        \A r \in 1 .. Len(fetched.rows) :
            LET row == fetched.rows[r]
            IN \A i \in 1 .. Min(Len(row.values), Len(row.columns)) :
                   GetItemInt(row, i) = GetItemKey(row, row.columns[i])

\* C12 (as claimed): when the warehouse served only rows as long as their statement's
\* schema and every execute on the cursor returned normally, every row fetchall returns
\* has as many values as column names.
C12_RowLengthIsColumnCount ==
    (well_formed /\ all_returned /\ Returned /\ fetched.done) =>
        \A r \in 1 .. Len(fetched.rows) :
            Len(fetched.rows[r].values) = Len(fetched.rows[r].columns)

\* C13: one execute issues at most 60 status GETs, and an execute that was entered
\* always comes to its end, by returning or by raising.
C13_AtMost60GetsAndTerminates ==
    /\ [](NumOp(log, "GET") <= max_polls)
    /\ ((pc # "idle") ~> (pc = "idle"))

C13_Witness ==
    pc = "idle" /\ NumOp(log, "GET") = max_polls /\ raised # TimeoutExc

\* C14: one execute issues exactly one submit POST, first of all its requests, asks
\* for no chunk twice, and once it has raised it issues no further request.
C14_NeverRetries ==
    /\ [](calls > 0 =>
            /\ NumOp(log, "POST") = 1
            /\ log[1] = PostEntry
            /\ \A i, j \in 1 .. Len(ChunkGets(log)) :
                  i # j => ChunkGets(log)[i] # ChunkGets(log)[j])
    /\ [][(raised # NoExc /\ calls' = calls) => log' = log]_vars

C14_Witness ==
    raised = TimeoutExc /\ fetched.done /\ NumOp(log, "GET") = max_polls

\* C15 (as claimed): with two cursors executing concurrently, every status and chunk
\* GET of a cursor names the statement id its own POST was given, and a cursor whose
\* execute returned holds exactly the column names and the rows of its own statement.
C15_CursorsShareNothing ==
    \A c \in Cursors :
        /\ cur[c].asked \subseteq {cur[c].own}
        /\ (cur[c].pc = "done" /\ cur[c].raised = NoExc) =>
              /\ Columns(cur[c].description) = warehouse[cur[c].own].schema
              /\ store[c] = Concat(warehouse[cur[c].own].data)

WorkerEnded == worker \in {"returned", "raised"}

\* C16: once the outer timeout has fired while the worker was running, the response is
\* the timeout response (504) and never changes (no response is ever replaced, so the
\* client gets exactly one), and the worker goes on to the end of its execute: it
\* ends, and if its execute returned, every chunk of the manifest was asked for.
C16_TimeoutStopsWaitingOnly ==
    /\ [][response # NoReply => response' = response]_vars
    /\ [](cut_at >= 0 => response.status_code = 504)
    /\ (cut_at >= 0) ~>
          ( /\ WorkerEnded
            /\ pc = "idle"
            /\ calls = 1
            /\ raised = NoExc => ChunkGets(log) = result.chunks
            /\ response.status_code = 504 )

C16_Witness ==
    /\ cut_at >= 0
    /\ worker = "returned"
    /\ raised = NoExc
    /\ Len(log) > cut_at + 1
    /\ NumOp(log, "CHUNK") = 1
    /\ response.status_code = 504

\* C17 (as claimed): a response to a request whose execute failed is 504 or 500; a
\* 200 response is sent only when execute raised nothing.
C17_FailuresAre504Or500 ==
    (response # NoReply /\ WorkerEnded /\ raised # NoExc) =>
        response.status_code \in {504, 500}

\* C18: the timeout error is raised only after exactly 60 status GETs that all
\* reported PENDING or RUNNING; and a statement whose 60th status GET reports
\* SUCCEEDED is not timed out: its chunk GETs follow, and when execute returns every
\* chunk of the manifest was asked for.
C18_TimeoutOnlyAfter60 ==
    /\ raised = TimeoutExc => (all_pending /\ NumOp(log, "GET") = max_polls)
    /\ \A i \in 1 .. Len(reports) :
          (reports[i].state = "SUCCEEDED" /\ reports[i].at = max_polls) =>
              /\ raised # TimeoutExc
              /\ pc # "poll"
              /\ PollShape(max_polls)
              /\ Returned => ChunkGets(log) = result.chunks

C18_Witness ==
    /\ Returned
    /\ reports = <<[at |-> max_polls, state |-> "SUCCEEDED", error |-> "None"]>>
    /\ ChunkGets(log) = <<0>>

\* C19 (as claimed): when get_table_metadata has executed DESCRIBE TABLE and then
\* SELECT * ... LIMIT 20 on its cursor, both without error, and fetched the rows,
\* sample_data is the first at most five rows the SELECT's chunks returned, in order,
\* keyed by the SELECT's column names, and holds no row of the DESCRIBE.
C19_SampleDataFromSelect ==
    (calls = 2 /\ well_formed /\ all_returned /\ Returned /\ fetched.done /\ AllServedOk) =>
        SampleData(fetched.rows) =
            SampleData(FetchAllValue(DescriptionOf(result.schema), ServedRows))

\* C20: when the initial response or a status GET reports a state other than PENDING,
\* RUNNING and SUCCEEDED (or no state at all), execute has raised the query-failed
\* error, and the log holds no status GET after that response and no chunk GET.
C20_UnknownStateFails ==
    \A i \in 1 .. Len(reports) :
        reports[i].state \notin {"PENDING", "RUNNING", "SUCCEEDED"} =>
            /\ Failed
            /\ raised.msg = "Query failed"
            /\ NumOp(log, "GET") = reports[i].at
            /\ NumOp(log, "CHUNK") = 0

C20_Witness ==
    /\ Failed
    /\ raised.msg = "Query failed"
    /\ \E i \in 1 .. Len(reports) : reports[i].state = "CANCELED" /\ reports[i].at >= 1
    /\ NumOp(log, "CHUNK") = 0

\* C29: on the endpoints that wait 30 or 60 seconds, with every poll sleep lasting
\* at least 2 seconds, the 504 has been sent whenever the worker's execute raises the
\* poll-cap error, and no 500 response carries that error.
C29_OuterTimeoutBeforePollCap ==
    /\ (worker # "none" /\ raised = TimeoutExc) => response.status_code = 504
    /\ response.status_code = 500 => response.detail # TimeoutExc.msg

C29_Witness ==
    /\ endpoint = "catalogs"
    /\ worker = "raised"
    /\ raised = TimeoutExc
    /\ NumOp(log, "SLEEP") = max_polls
    /\ response.status_code = 504

\* the columns whose ALTER statement was submitted so far, in order
Submitted == [i \in 1 .. calls |-> AlterOf(upd.mapping, i)]

\* C21: update_column_comments submits the ALTER statements in mapping order, one
\* execute at a time; when it ends with the k-th statement's error, the k-1 earlier
\* executes all returned normally and k statements were submitted; when it returns,
\* every entry's statement was submitted and returned normally; either way the cursor
\* was closed, and nothing is submitted after the end.
C21_StopsAtFirstFailure ==
    /\ [](upd.state # "none" =>
            /\ calls <= Len(upd.mapping)
            /\ Submitted = SubSeq(upd.mapping, 1, calls))
    /\ [](upd.state = "raised" =>
            calls >= 1 /\ raised # NoExc /\ all_returned /\ upd.closed)
    /\ [](upd.state = "returned" =>
            /\ calls = Len(upd.mapping)
            /\ raised = NoExc
            /\ all_returned
            /\ upd.closed)
    /\ [](upd.state = "running" => ~upd.closed)
    /\ [][upd.state \in {"raised", "returned"} => (calls' = calls /\ log' = log)]_vars

C21_Witness ==
    /\ upd.state = "raised"
    /\ calls = 1
    /\ Len(upd.mapping) = 2
    /\ upd.closed

\* the rows of a DESCRIBE result that name a column
ColumnRows(rows) == {i \in 1 .. Len(rows) : IsColumnRow(rows[i])}
ElemsOf(seq) == {seq[i] : i \in 1 .. Len(seq)}

\* C27: generate_column_descriptions returns [] with no LLM call when no column has a
\* missing description; otherwise it calls the LLM once, the columns needing
\* descriptions are exactly those with a missing description and the context columns
\* are exactly the others.
C27_OneCallForMissingColumns ==
    enrich.gen_done =>
        LET rows == enrich.rows
            g == enrich.gen
            miss == {i \in ColumnRows(rows) : IsMissingDescription(rows[i].comment)}
            have == ColumnRows(rows) \ miss
        IN IF miss = {}
           THEN g.llm_calls = 0 /\ g.empty
           ELSE /\ g.llm_calls = 1
                /\ ~g.empty
                /\ Len(g.needing) = Cardinality(miss)
                /\ Len(g.context) = Cardinality(have)
                /\ ElemsOf(g.needing) =
                       {[name |-> rows[i].col_name, type |-> rows[i].data_type] :
                           i \in miss}
                /\ ElemsOf(g.context) =
                       {[name |-> rows[i].col_name, type |-> rows[i].data_type,
                         description |-> rows[i].comment] : i \in have}

C27_Witness ==
    /\ enrich.gen_done
    /\ enrich.gen.llm_calls = 1
    /\ Len(enrich.gen.needing) = 1
    /\ Len(enrich.gen.context) = 1
    /\ Len(enrich.rows) = 2

\* a comment is missing in the words of the claim: None, not a string, or a string
\* whose stripped form has at most 3 characters or is a placeholder word
MissingAsStated(c) ==
    \/ c = PyNone
    \/ c.type # "str"
    \/ Len(Strip(c.chars)) <= 3
    \/ Lower(Strip(c.chars)) \in Placeholders

\* C30: the columns get_column_metadata flags is_missing are the columns
\* generate_column_descriptions selects as needing descriptions; both keep the rows
\* whose name is non-empty and does not start with '#', and both call a comment
\* missing exactly when it is missing in the words of the claim.
C30_SameMissingColumns ==
    (enrich.meta_done /\ enrich.gen_done) =>
        LET rows == enrich.rows
            kept == SelectSeq(rows, LAMBDA r : r.col_name # <<>> /\ r.col_name[1] # "#")
        IN /\ [i \in 1 .. Len(enrich.meta) |-> enrich.meta[i].name]
                 = [i \in 1 .. Len(kept) |-> kept[i].col_name]
           /\ \A i \in 1 .. Len(enrich.meta) :
                 enrich.meta[i].is_missing = MissingAsStated(kept[i].comment)
           /\ {enrich.meta[i].name : i \in {j \in 1 .. Len(enrich.meta) :
                                                  enrich.meta[j].is_missing}}
                 = {enrich.gen.needing[i].name : i \in 1 .. Len(enrich.gen.needing)}

C30_Witness ==
    /\ enrich.meta_done
    /\ enrich.gen_done
    /\ Len(enrich.rows) = 2
    /\ Len(enrich.meta) = 1
    /\ enrich.meta[1].is_missing
    /\ enrich.meta[1].description = Str(<<"N", "o", "n", "e">>)

Answered(t) == thr[t].pc = "idle" /\ thr[t].outcome # "none"

\* C22 (as claimed): a request to a protected endpoint runs its handler only if its
\* cookie named a session that was in the store and not expired when get_session read
\* it; every other request is answered 401 (and runs no handler).
C22_HandlerOnlyWithValidSession ==
    \A t \in Threads :
        Answered(t) =>
            /\ thr[t].outcome = "ran" => thr[t].valid
            /\ thr[t].outcome # "ran" => thr[t].outcome = "401"

\* C23: once delete_session(id) has returned, the revocation request having raised or
\* not, the session is not in the store in any later state, and every get_session(id)
\* that starts later returns None (the request is answered 401).
C23_DeletedStaysDeleted ==
    /\ \A id \in deleted : ~InStore(id)
    /\ \A t \in Threads :
          thr[t].late => (thr[t].pc \in {"check", "idle"} /\
                          (thr[t].pc = "idle" => thr[t].outcome = "401"))

C23_Witness ==
    /\ loop.outcome = "returned"
    /\ loop.revoke_raised
    /\ loop.sid = 1
    /\ ~InStore(1)
    /\ \E t \in Threads : thr[t].late /\ thr[t].sid = 1 /\ Answered(t)

\* C24 (as claimed): get_session returns a session only when its expires_at is not
\* before the current time; a lookup that finds its session expired removes it from
\* the store and returns None; and a session leaves the store only in that step or in
\* the del of delete_session.
C24_ExpiredNeverReturned ==
    [][ /\ \A t \in Threads :
             (thr[t].pc = "expiry" /\ thr'[t].pc = "idle") =>
                 /\ thr'[t].outcome = "ran" => ~(thr[t].session.expires_at < now)
                 /\ thr[t].session.expires_at < now =>
                         /\ sessions'[thr[t].sid] = Gone
                         /\ thr'[t].outcome = "401"
        /\ \A id \in 1 .. minted :
             (InStore(id) /\ sessions'[id] = Gone) =>
                 \/ loop.pc = "del" /\ loop.sid = id /\ loop'.pc = "idle"
                 \/ \E t \in Threads :
                       /\ thr[t].pc = "expiry"
                       /\ thr[t].sid = id
                       /\ thr[t].session.expires_at < now
                       /\ thr'[t].pc = "idle" ]_vars

\* C25 (as claimed): no lookup and no logout ends with an exception, however the
\* lookups of the worker threads and the logout of the event loop interleave.
C25_SessionCallsNeverRaise ==
    /\ \A t \in Threads : thr[t].outcome # "KeyError"
    /\ loop.outcome # "KeyError"

\* C26: authenticate_user never raises; it returns None when the credential check
\* answers 401 or another code than 200 and when one of its HTTP calls raises; login
\* then answers 401 and creates no session; a session is created only in a login whose
\* credential check answered 200.
C26_LoginFailsClosed ==
    /\ [](login.done =>
            /\ login.result \in {"None", "auth"}
            /\ (login.cred.raised \/ login.cred.code # 200) => login.result = "None"
            /\ (~login.cred.raised /\ login.cred.code = 200 /\
                   (login.token.raised \/ login.user.raised)) => login.result = "None"
            /\ login.result = "None" => login.reply = 401)
    /\ [][sessions' # sessions =>
            /\ login'.result = "auth"
            /\ ~login'.cred.raised
            /\ login'.cred.code = 200]_vars
    /\ [][(login' # login /\ login'.result = "None") => sessions' = sessions]_vars

C26_Witness ==
    /\ login.done
    /\ login.cred = Http(FALSE, 500, TRUE)
    /\ login.reply = 401
    /\ login.result = "None"
    /\ sessions = <<>>

\* C28: a fetchall call leaves self._results and self.description as they were and
\* returns the rows of self._results under the current column names; a second
\* fetchall with no execute in between returns the same rows; fetchall on a cursor that
\* never executed returns the empty sequence.
C28_FetchallReadOnly ==
    /\ [][fetched'.times = fetched.times + 1 =>
            /\ cursor' = cursor
            /\ fetched'.rows = FetchAllValue(description, results)
            /\ fetched.done => fetched'.rows = fetched.rows]_vars
    /\ []((fetched.done /\ calls = 0) => fetched.rows = <<>>)

C28_Witness == Returned /\ fetched.times = 2 /\ Len(fetched.rows) = 2

====
